---- MODULE Spec2Model ----
(***************************************************************************)
(* State-machine model of the generation-task orchestration core:          *)
(* the task row (ugcTask.ts), the pg-boss queue with its two handlers      *)
(* (ugcVideoWorkflow.ts, pollVideoStatus.ts), the video workflow           *)
(* (ugcWorkflow.ts), clip reconciliation and the fire-and-forget download  *)
(* (videoGeneration.ts), the ad-hoc wait loop and retryTask, the image     *)
(* workflow (imageWorkflow.ts) and the start gate of the queue client      *)
(* (pgBoss.ts).                                                            *)
(*                                                                         *)
(* Tasks share no state with one another, so the model follows one task.   *)
(* Every await of the source is a step boundary: a handler's position is   *)
(* its pc, and other processes may run between two steps.                  *)
(***************************************************************************)
EXTENDS Integers, Sequences, FiniteSets, TLC

\* ---------------------------------------------------------------- bounds
\* maxAttempts of the poll job and of the wait loop (60 in the source).
MaxAttempts == 2
\* how many times the owner calls retryTask
MaxRetryCalls == 1
\* how many times the ad-hoc wait loop is started
MaxWaitLoops == 1
\* how many handler runs the worker starts, over all jobs
MaxRuns == 4
\* the largest number of images an image task asks for
MaxImages == 3
\* the largest number of clip ids a poll job carries
MaxClips == 2
\* the call sites that start the queue client, each calling once
MaxCallSites == 2
\* how many times stopPgBoss is called
MaxStops == 1

\* ------------------------------------------------------ program constants
\* retryLimit of both job kinds: a job runs at most 1 + RetryLimit times
RetryLimit == 2

NULL == "null"
NoTime == 0
\* a targetDuration that `!task.targetDuration` takes as missing: null or 0
NoDuration == 0
\* the parameters the create route fills in for a request without them
DefaultDuration == 12
DefaultCount == 1

\* ---------------------------------------------------------------- state
VARIABLES
    task,       \* the generation_task row
    creating,   \* position of createVideoTask
    jobs,       \* the queue: sequence of job records, a job's id is its index
    wf,         \* the worker's ugc-video-workflow handler
    rt,         \* retryTask: position and number of calls made
    clips,      \* the video_clip rows, a clip's id is its index
    remote,     \* the generator's status of each clip's operation
    rc,         \* the two callers of batchUpdateVideoStatus: poller job, wait loop
    fetches,    \* downloads in flight, per clip
    hist,       \* history of each clip, recorded for the properties
    store,      \* rows of the artifact tables: product, ugc_script, shot, promotional_image
    img,        \* the worker's image-generation-workflow handler
    boss        \* the module state of pgBoss.ts and the calls into it

vars == <<task, creating, jobs, wf, rt, clips, remote, rc, fetches, hist, store, img, boss>>

\* ------------------------------------------------------------ task status
TaskStatuses ==
    {"pending", "analyzing", "scripting", "storyboarding", "generating_frames",
     "generating_videos", "generating_images", "compositing",
     "completed", "failed", "cancelled"}

processingStatuses ==
    {"analyzing", "scripting", "storyboarding", "generating_frames",
     "generating_videos", "generating_images", "compositing"}

TaskTerminal == {"completed", "failed", "cancelled"}

\* `new Date()`: a time that is not NoTime and differs from the startedAt the
\* row holds, so that a second stamp shows as a change
Now == IF task.startedAt = 1 THEN 2 ELSE 1

\* updateTaskStatus(taskId, status, errorMessage?); msg = NULL stands for an
\* omitted (undefined) errorMessage, which leaves the column as it is.
updateTaskStatus(t, status, msg, now) ==
    [t EXCEPT
        !.status = status,
        !.startedAt = IF status \in processingStatuses /\ msg = NULL
                      THEN now ELSE @,
        !.completedAt = IF status \in TaskTerminal THEN now ELSE @,
        !.errorMessage = IF msg # NULL THEN msg ELSE @]

\* ----------------------------------------------------------------- queue
\* clips: the videoClipIds of a poll job's data; `by` is the workflow job
\* whose run sent a poll job (0 for a workflow job)
Job(kind, ids) ==
    [kind |-> kind, state |-> "created", retryCount |-> 0, clips |-> ids, by |-> 0]

\* pg-boss on a handler that threw: retry while retryCount < retryLimit
JobThrew(j) ==
    IF jobs[j].retryCount < RetryLimit
    THEN [jobs EXCEPT ![j].state = "retry", ![j].retryCount = @ + 1]
    ELSE [jobs EXCEPT ![j].state = "failed"]

JobDone(j) == [jobs EXCEPT ![j].state = "completed"]

\* handler runs started so far, over all jobs
RECURSIVE RunsUpTo(_)
RunsUpTo(n) ==
    IF n = 0 THEN 0
    ELSE RunsUpTo(n - 1) + jobs[n].retryCount
         + (IF jobs[n].state \in {"active", "completed", "failed"} THEN 1 ELSE 0)

\* a job the worker may take now: created or waiting for its retry
Fetchable(j, kind) ==
    /\ j \in DOMAIN jobs
    /\ RunsUpTo(Len(jobs)) < MaxRuns
    /\ jobs[j].kind = kind
    /\ jobs[j].state \in {"created", "retry"}

\* ------------------------------------------------------------------ Init
\* ran: the stages this run has invoked, in order
WfIdle == [pc |-> "idle", job |-> 0, err |-> NULL, clip |-> 0, ran |-> <<>>]

\* i, results: the loop index and results.length of generatePromotionalImages;
\* failed and base (the promotional_image rows present when the run began)
\* are kept for the properties, also after the run has returned
ImgIdle == [pc |-> "idle", job |-> 0, err |-> NULL, i |-> 0, results |-> 0,
            failed |-> 0, base |-> 0, ran |-> <<>>]

\* the row createVideoTask / createImageTask inserts; before the insert
\* (exists = FALSE) it stands for the parameters of the request
NewTask(type, duration, count) ==
    [exists |-> FALSE, taskType |-> type, targetDuration |-> duration,
     count |-> count, status |-> "pending", errorMessage |-> NULL,
     startedAt |-> NoTime, completedAt |-> NoTime, jobId |-> 0]

EmptyStore == [product |-> 0, script |-> 0, shot |-> 0, image |-> 0]

\* pgBoss.ts as loaded: boss = null (client "none"), isStarted = false,
\* startPromise = null (0; otherwise the call site whose call made it).
\* starts counts the invocations of the client's start() since stopPgBoss
\* was last called, ready says that one of them has returned; site[c] is a
\* call of ensurePgBossStarted or startPgBoss: its function, its position,
\* the promise it waits on, the createQueue calls it has made.
CallSites == 1..MaxCallSites

SiteIdle == [fn |-> NULL, pc |-> "idle", on |-> 0, queues |-> 0]

BossInit ==
    [client |-> "none", isStarted |-> FALSE, startPromise |-> 0,
     starts |-> 0, ready |-> FALSE, stopping |-> FALSE, stops |-> 0,
     site |-> [c \in CallSites |-> SiteIdle]]

\* everything but the request
InitRest ==
    /\ creating = "insert"
    /\ jobs = <<>>
    /\ wf = WfIdle
    /\ rt = [pc |-> "idle", calls |-> 0, job |-> 0]
    /\ clips = <<>>
    /\ remote = <<>>
    /\ rc = [k \in {"poller", "waiter"} |->
                [pc |-> "idle", job |-> 0, ids |-> <<>>, idx |-> 0, clip |-> 0,
                 attempt |-> 0, sleeps |-> 0, nOk |-> 0, nFailed |-> 0, loopOk |-> 0,
                 snap |-> NULL, seen |-> NULL, late |-> FALSE, fresh |-> FALSE,
                 outcome |-> NULL]]
    /\ fetches = <<>>
    /\ hist = <<>>
    /\ store = EmptyStore
    /\ img = ImgIdle
    /\ boss = BossInit

Init ==
    /\ task = NewTask("video", DefaultDuration, DefaultCount)
    /\ InitRest

\* -------------------------------------------------------- createVideoTask
createVideoTask_insert ==
    /\ creating = "insert"
    /\ task.taskType = "video"
    /\ task' = [task EXCEPT !.exists = TRUE]
    /\ creating' = "send"
    /\ UNCHANGED <<jobs, wf, rt, clips, remote, rc, fetches, hist, store, img, boss>>

\* sendUgcVideoWorkflowJob
createVideoTask_send ==
    /\ creating = "send"
    /\ task.taskType = "video"
    /\ jobs' = Append(jobs, Job("workflow", <<>>))
    /\ creating' = "setJobId"
    /\ UNCHANGED <<task, wf, rt, clips, remote, rc, fetches, hist, store, img, boss>>

createVideoTask_setJobId ==
    /\ creating = "setJobId"
    /\ task.taskType = "video"
    /\ task' = [task EXCEPT !.jobId = 1]
    /\ creating' = "done"
    /\ UNCHANGED <<jobs, wf, rt, clips, remote, rc, fetches, hist, store, img, boss>>

\* ------------------------------------------------- handleUgcVideoWorkflow
\* the worker takes a workflow job (batchSize 1: one handler at a time) and
\* getTaskById finds the row, which exists before any job for it is sent
handleUgcVideoWorkflow_begin ==
    /\ wf.pc = "idle"
    /\ \E j \in DOMAIN jobs :
        /\ Fetchable(j, "workflow")
        /\ jobs' = [jobs EXCEPT ![j].state = "active"]
        /\ wf' = [WfIdle EXCEPT !.pc = "setAnalyzing", !.job = j]
    /\ UNCHANGED <<task, creating, rt, clips, remote, rc, fetches, hist, store, img, boss>>

handleUgcVideoWorkflow_setAnalyzing ==
    /\ wf.pc = "setAnalyzing"
    /\ task' = updateTaskStatus(task, "analyzing", NULL, Now)
    /\ wf' = [wf EXCEPT !.pc = "analyze"]
    /\ UNCHANGED <<creating, jobs, rt, clips, remote, rc, fetches, hist, store, img, boss>>

\* the stages of executeUgcVideoWorkflow that precede the video request
StageOrder == <<"analyze", "script", "shots", "video">>

StageIndex(p) == CHOOSE i \in DOMAIN StageOrder : StageOrder[i] = p

\* the workflow with its own targetDuration check left out
StagePrecondition_scriptOnly(p, t) ==
    CASE p = "script" ->
            IF t.targetDuration = NoDuration
            THEN "Target duration is required for video generation"
            ELSE IF t.count < 1 \/ t.count > 10
            THEN "Video count must be between 1 and 10"
            ELSE IF t.targetDuration < 5 \/ t.targetDuration > 60
            THEN "Target duration must be between 5 and 60 seconds"
            ELSE NULL
      [] OTHER -> NULL

\* the parameter checks made before a stage does anything: the workflow's
\* own `if (!task.targetDuration)` ahead of the analysis, and the three
\* checks at the head of generateUgcScripts; NULL when the stage may run
StagePrecondition(p, t) ==
    CASE p = "analyze" ->
            IF t.targetDuration = NoDuration
            THEN "Target duration is required for video generation workflow"
            ELSE NULL
      [] p = "script" ->
            IF t.targetDuration = NoDuration
            THEN "Target duration is required for video generation"
            ELSE IF t.count < 1 \/ t.count > 10
            THEN "Video count must be between 1 and 10"
            ELSE IF t.targetDuration < 5 \/ t.targetDuration > 60
            THEN "Target duration must be between 5 and 60 seconds"
            ELSE NULL
      [] OTHER -> NULL

\* the rows a stage that returned has inserted: one product, one script per
\* requested video, one shot breakdown
StageSaved(st, p, t) ==
    CASE p = "analyze" -> [st EXCEPT !.product = @ + 1]
      [] p = "script" -> [st EXCEPT !.script = @ + t.count]
      [] p = "shots" -> [st EXCEPT !.shot = @ + 1]
      [] OTHER -> st

\* a workflow whose try block swallows a stage's error and stays where it is
StageThrew_goOn(r, err) == r

\* a stage threw: the workflow's try block is left for its catch block, which
\* has the error
StageThrew(r, err) == [r EXCEPT !.pc = "catch", !.err = err]

\* the stage is called (the workflow's own targetDuration check comes before
\* the call of the first one)
StageInvoked(r, p, t) ==
    IF p = "analyze" /\ StagePrecondition(p, t) # NULL THEN r
    ELSE [r EXCEPT !.ran = Append(@, p)]

\* analyzeAndCreateProduct, generateAndSaveUgcScripts,
\* generateAndSaveShotBreakdowns: each returns or throws; a throw is caught
\* by the workflow, returned as {status: 'failed'} and re-raised by the handler
executeUgcVideoWorkflow_stage ==
    /\ wf.pc \in {"analyze", "script", "shots"}
    /\ LET w == StageInvoked(wf, wf.pc, task) IN
       IF StagePrecondition(wf.pc, task) # NULL
       THEN /\ wf' = StageThrew(w, StagePrecondition(wf.pc, task))
            /\ UNCHANGED store
       ELSE \E ok \in BOOLEAN :
            IF ok
            THEN /\ wf' = [w EXCEPT !.pc = StageOrder[StageIndex(wf.pc) + 1]]
                 /\ store' = StageSaved(store, wf.pc, task)
            ELSE /\ wf' = StageThrew(w, "stage failed")
                 /\ UNCHANGED store
    /\ UNCHANGED <<task, creating, jobs, rt, clips, remote, rc, fetches, hist, img, boss>>

NewClip == [status |-> "queued", sourceVideoUrl |-> NULL,
            downloadStatus |-> "pending", path |-> NULL, downloadedAt |-> NoTime]

NewHist(j, run) == [job |-> j, run |-> run, starts |-> 0, everTerminal |-> FALSE,
                    observed |-> FALSE, lateQuery |-> FALSE, badWrite |-> FALSE]

\* batchCreateVideoTasks: one generation request for the merged shots, then
\* one video_clip row (queued, download pending) holding its operation id
batchCreateVideoTasks ==
    /\ wf.pc = "video"
    /\ \E ok \in BOOLEAN :
        IF ok
        THEN /\ clips' = Append(clips, NewClip)
             /\ remote' = Append(remote, "queued")
             /\ fetches' = Append(fetches, 0)
             /\ hist' = Append(hist, NewHist(wf.job, jobs[wf.job].retryCount))
             /\ wf' = [StageInvoked(wf, "video", task) EXCEPT
                            !.pc = "sendPoll", !.clip = Len(clips) + 1]
        ELSE /\ wf' = StageThrew(StageInvoked(wf, "video", task), "stage failed")
             /\ UNCHANGED <<clips, remote, fetches, hist>>
    /\ UNCHANGED <<task, creating, jobs, rt, rc, store, img, boss>>

\* a handler that returns after the workflow without sending the poll job
AfterWorkflowRun_noPoll(j, clip) == JobDone(j)

\* the queue after a workflow run that returned: the poll job for the run's
\* clip has been sent and pg-boss has completed the workflow job
AfterWorkflowRun(j, clip) ==
    Append(JobDone(j), [Job("poll", <<clip>>) EXCEPT !.by = j])

\* boss.send(POLL_VIDEO_STATUS, {videoClipIds: result.videoClipIds, taskId, ...});
\* the handler then returns and pg-boss completes the workflow job
handleUgcVideoWorkflow_sendPoll ==
    /\ wf.pc = "sendPoll"
    /\ \E ok \in BOOLEAN :
        IF ok
        THEN /\ jobs' = AfterWorkflowRun(wf.job, wf.clip)
             /\ wf' = WfIdle
        ELSE /\ wf' = [wf EXCEPT !.pc = "catch", !.err = "send failed"]
             /\ UNCHANGED jobs
    /\ UNCHANGED <<task, creating, rt, clips, remote, rc, fetches, hist, store, img, boss>>

\* a catch block that logs and re-throws without the status update
WorkflowCaught_logOnly(t, err, now) == t

\* the row after the handler's catch block has run
WorkflowCaught(t, err, now) == updateTaskStatus(t, "failed", err, now)

\* catch: updateTaskStatus(taskId, 'failed', error.message); throw error
handleUgcVideoWorkflow_catch ==
    /\ wf.pc = "catch"
    /\ task' = WorkflowCaught(task, wf.err, Now)
    /\ jobs' = JobThrew(wf.job)
    /\ wf' = WfIdle
    /\ UNCHANGED <<creating, rt, clips, remote, rc, fetches, hist, store, img, boss>>

\* --------------------------------------------------------------- retryTask
\* a retryTask without the status test
RetryAllowed_anyStatus(t, owns) == owns

\* findFirst by task id and user id; `if (!task || task.status !== 'failed')
\* return null`
RetryAllowed(t, owns) == owns /\ t.status = "failed"

\* a call by the task's owner or by another user
retryTask_find ==
    /\ rt.pc = "idle"
    /\ rt.calls < MaxRetryCalls
    /\ task.exists
    /\ \E owns \in BOOLEAN :
        rt' = [rt EXCEPT !.calls = @ + 1,
                         !.pc = IF RetryAllowed(task, owns) THEN "reset" ELSE "idle"]
    /\ UNCHANGED <<task, creating, jobs, wf, clips, remote, rc, fetches, hist, store, img, boss>>

retryTask_reset ==
    /\ rt.pc = "reset"
    /\ task' = [task EXCEPT !.status = "pending", !.errorMessage = NULL,
                            !.startedAt = NoTime, !.completedAt = NoTime]
    /\ rt' = [rt EXCEPT !.pc = "send"]
    /\ UNCHANGED <<creating, jobs, wf, clips, remote, rc, fetches, hist, store, img, boss>>

\* the queue a task type's workflow job goes to
WorkflowKind(type) == IF type = "video" THEN "workflow" ELSE "image"

\* sendUgcVideoWorkflowJob(taskId, true) or sendImageGenerationWorkflowJob(taskId),
\* by task.taskType; the new job id is returned to the caller and not written
\* to the row
retryTask_send ==
    /\ rt.pc = "send"
    /\ jobs' = Append(jobs, Job(WorkflowKind(task.taskType), <<>>))
    /\ rt' = [rt EXCEPT !.pc = "idle", !.job = Len(jobs) + 1]
    /\ UNCHANGED <<task, creating, wf, clips, remote, rc, fetches, hist, store, img, boss>>

\* ------------------------------------------- handleImageGenerationWorkflow
createImageTask_insert ==
    /\ creating = "insert"
    /\ task.taskType = "image"
    /\ task' = [task EXCEPT !.exists = TRUE]
    /\ creating' = "send"
    /\ UNCHANGED <<jobs, wf, rt, clips, remote, rc, fetches, hist, store, img, boss>>

\* sendImageGenerationWorkflowJob
createImageTask_send ==
    /\ creating = "send"
    /\ task.taskType = "image"
    /\ jobs' = Append(jobs, Job("image", <<>>))
    /\ creating' = "setJobId"
    /\ UNCHANGED <<task, wf, rt, clips, remote, rc, fetches, hist, store, img, boss>>

createImageTask_setJobId ==
    /\ creating = "setJobId"
    /\ task.taskType = "image"
    /\ task' = [task EXCEPT !.jobId = 1]
    /\ creating' = "done"
    /\ UNCHANGED <<jobs, wf, rt, clips, remote, rc, fetches, hist, store, img, boss>>

\* the worker takes an image job; getTaskById finds the row, an image task
handleImageGenerationWorkflow_begin ==
    /\ img.pc = "idle"
    /\ \E j \in DOMAIN jobs :
        /\ Fetchable(j, "image")
        /\ jobs' = [jobs EXCEPT ![j].state = "active"]
        /\ img' = [ImgIdle EXCEPT !.pc = "setAnalyzing", !.job = j, !.base = store.image]
    /\ UNCHANGED <<task, creating, wf, rt, clips, remote, rc, fetches, hist, store, boss>>

\* updateTaskStatus(task.id, 'analyzing')
executeImageGenerationWorkflow_setAnalyzing ==
    /\ img.pc = "setAnalyzing"
    /\ task' = updateTaskStatus(task, "analyzing", NULL, Now)
    /\ img' = [img EXCEPT !.pc = "analyze"]
    /\ UNCHANGED <<creating, jobs, wf, rt, clips, remote, rc, fetches, hist, store, boss>>

\* analyzeAndCreateProduct
executeImageGenerationWorkflow_analyze ==
    /\ img.pc = "analyze"
    /\ \E ok \in BOOLEAN :
        IF ok
        THEN /\ img' = [img EXCEPT !.pc = "setGenerating", !.ran = Append(@, "analyze")]
             /\ store' = [store EXCEPT !.product = @ + 1]
        ELSE /\ img' = StageThrew([img EXCEPT !.ran = Append(@, "analyze")], "stage failed")
             /\ UNCHANGED store
    /\ UNCHANGED <<task, creating, jobs, wf, rt, clips, remote, rc, fetches, hist, boss>>

\* updateTaskStatus(task.id, 'generating_images')
executeImageGenerationWorkflow_setGenerating ==
    /\ img.pc = "setGenerating"
    /\ task' = updateTaskStatus(task, "generating_images", NULL, Now)
    /\ img' = [img EXCEPT !.pc = "generate"]
    /\ UNCHANGED <<creating, jobs, wf, rt, clips, remote, rc, fetches, hist, store, boss>>

\* `const count = task.count || 1`
ImageCount(t) == IF t.count = 0 THEN 1 ELSE t.count

\* a loop without the try/catch around generateSingleImage: the first
\* failure ends generatePromotionalImages
AfterImage_abortOnFailure(r, ok, n) ==
    IF ~ok
    THEN [r EXCEPT !.i = @ + 1, !.failed = @ + 1, !.pc = "catch", !.err = "stage failed"]
    ELSE [r EXCEPT !.i = @ + 1, !.results = @ + 1,
                   !.pc = IF r.i + 1 < n THEN "generate" ELSE "setCompleted"]

\* one iteration of the loop of generatePromotionalImages: a result is
\* pushed, or the error is logged and the loop goes on; after the last
\* iteration `if (images.length === 0) throw`
AfterImage(r, ok, n) ==
    LET results == r.results + (IF ok THEN 1 ELSE 0) IN
        [r EXCEPT !.i = @ + 1,
                  !.results = results,
                  !.failed = @ + (IF ok THEN 0 ELSE 1),
                  !.pc = IF r.i + 1 < n THEN "generate"
                         ELSE IF results = 0 THEN "catch" ELSE "setCompleted",
                  !.err = IF r.i + 1 >= n /\ results = 0
                          THEN "Failed to generate any images" ELSE @]

\* generateSingleImage: the generator returns an image, which is saved and
\* inserted as a promotional_image row, or some step of it throws; the first
\* call is the start of the stage generatePromotionalImages
generateSingleImage ==
    /\ img.pc = "generate"
    /\ \E ok \in BOOLEAN :
        /\ img' = [AfterImage(img, ok, ImageCount(task)) EXCEPT
                        !.ran = IF img.i = 0 THEN Append(@, "generate") ELSE @]
        /\ store' = IF ok THEN [store EXCEPT !.image = @ + 1] ELSE store
    /\ UNCHANGED <<task, creating, jobs, wf, rt, clips, remote, rc, fetches, hist, boss>>

\* updateTaskStatus(task.id, 'completed'); the workflow returns completed and
\* the handler returns
executeImageGenerationWorkflow_setCompleted ==
    /\ img.pc = "setCompleted"
    /\ task' = updateTaskStatus(task, "completed", NULL, Now)
    /\ jobs' = JobDone(img.job)
    /\ img' = [img EXCEPT !.pc = "idle"]
    /\ UNCHANGED <<creating, wf, rt, clips, remote, rc, fetches, hist, store, boss>>

\* catch: updateTaskStatus(task.id, 'failed', errorMessage); the workflow
\* returns failed and the handler throws
executeImageGenerationWorkflow_catch ==
    /\ img.pc = "catch"
    /\ task' = updateTaskStatus(task, "failed", img.err, Now)
    /\ jobs' = JobThrew(img.job)
    /\ img' = [img EXCEPT !.pc = "idle"]
    /\ UNCHANGED <<creating, wf, rt, clips, remote, rc, fetches, hist, store, boss>>

\* ------------------------------------------------------ clip reconciliation
VideoTaskStatus == {"queued", "running", "cancelled", "succeeded", "failed", "expired"}

terminalStatuses == {"succeeded", "failed", "expired", "cancelled"}

\* What the generator may report for an operation last seen in status s: the
\* operation moves queued -> running -> terminal and rests there.  A status
\* is visible to the program only through getVideoGenerationStatus, so the
\* generator's progress is drawn when it is asked.
RemoteMay(s) ==
    CASE s = "queued" -> VideoTaskStatus
      [] s = "running" -> VideoTaskStatus \ {"queued"}
      [] OTHER -> {s}

Callers == {"poller", "waiter"}

\* a caller of batchUpdateVideoStatus: ids are the clip ids it passes, idx the
\* position of the loop of batchUpdateVideoStatus, clip = ids[idx]; attempt
\* counts the batch calls made, sleeps the pollInterval waits; nOk and nFailed
\* count the 'succeeded' and 'failed' results of the batch under way, loopOk
\* keeps the 'succeeded' count of the previous batch
RcIdle == [pc |-> "idle", job |-> 0, ids |-> <<>>, idx |-> 0, clip |-> 0,
           attempt |-> 0, sleeps |-> 0, nOk |-> 0, nFailed |-> 0, loopOk |-> 0,
           snap |-> NULL, seen |-> NULL, late |-> FALSE, fresh |-> FALSE,
           outcome |-> NULL]

\* `${failed} videos failed to generate`
FailedMessage(n) ==
    CASE n = 1 -> "1 videos failed to generate"
      [] n = 2 -> "2 videos failed to generate"
      [] OTHER -> "3 videos failed to generate"

\* a poller that takes one success for the whole job
PollerAfterBatch_anySuccess(r) ==
    LET completed == r.nOk
        failed == r.nFailed
        pending == Len(r.ids) - completed - failed
    IN  IF r.attempt <= MaxAttempts
        THEN IF pending = 0
             THEN IF completed > 0
                  THEN [r EXCEPT !.pc = "final", !.outcome = "completed"]
                  ELSE [r EXCEPT !.pc = "final", !.outcome = "allFailed"]
             ELSE [r EXCEPT !.pc = "select", !.nOk = 0, !.nFailed = 0,
                            !.loopOk = completed]
        ELSE IF completed > 0
             THEN [r EXCEPT !.pc = "final", !.outcome = "someTimedOut"]
             ELSE [r EXCEPT !.pc = "final", !.outcome = "timedOut"]

\* What handlePollVideoStatus does with the statuses batchUpdateVideoStatus
\* returned: completed = #succeeded, failed = #failed, pending = the rest.
\* Batch call MaxAttempts + 1 is the one after the loop ("timeout").
PollerAfterBatch(r) ==
    LET completed == r.nOk
        failed == r.nFailed
        pending == Len(r.ids) - completed - failed
    IN  IF r.attempt <= MaxAttempts
        THEN IF pending = 0
             THEN IF failed = 0
                  THEN [r EXCEPT !.pc = "final", !.outcome = "completed"]
                  ELSE IF completed > 0
                  THEN [r EXCEPT !.pc = "final", !.outcome = "partial"]
                  ELSE [r EXCEPT !.pc = "final", !.outcome = "allFailed"]
             ELSE [r EXCEPT !.pc = "select", !.nOk = 0, !.nFailed = 0,
                            !.loopOk = completed]
        ELSE IF completed > 0
             THEN [r EXCEPT !.pc = "final", !.outcome = "someTimedOut"]
             ELSE [r EXCEPT !.pc = "final", !.outcome = "timedOut"]

\* pollVideoGenerationStatus: return the counts or go round again
WaiterAfterBatch(r) ==
    IF r.attempt <= MaxAttempts /\ Len(r.ids) - r.nOk - r.nFailed # 0
    THEN [r EXCEPT !.pc = "select", !.nOk = 0, !.nFailed = 0, !.loopOk = r.nOk]
    ELSE [RcIdle EXCEPT !.job = r.job, !.ids = r.ids, !.nOk = r.nOk,
                        !.nFailed = r.nFailed, !.outcome = "returned"]

\* the locals of the finished updateVideoClipStatus call are gone (fresh, a
\* history field, stays until the next call)
Returned(r) == [r EXCEPT !.snap = NULL, !.seen = NULL, !.late = FALSE]

AfterBatch(k, r) ==
    IF k = "poller" THEN PollerAfterBatch(r) ELSE WaiterAfterBatch(r)

\* batchUpdateVideoStatus has the result of one clip: on to the next clip, or
\* the results go back to the caller
AfterClip(k, r, status) ==
    LET q == [Returned(r) EXCEPT
                !.nOk = @ + (IF status = "succeeded" THEN 1 ELSE 0),
                !.nFailed = @ + (IF status = "failed" THEN 1 ELSE 0)]
    IN  IF q.idx < Len(q.ids)
        THEN [q EXCEPT !.idx = @ + 1, !.clip = q.ids[q.idx + 1], !.pc = "select"]
        ELSE AfterBatch(k, [q EXCEPT !.idx = 1, !.clip = q.ids[1]])

\* a poll loop that waits before its first attempt too
SleepsBefore_always(k, attempt) ==
    IF attempt <= MaxAttempts THEN 1 ELSE 0

\* the waits before batch call number `attempt`: the poll job sleeps
\* `if (attempt > 1)`, the wait loop before every attempt; neither sleeps
\* before the call that follows the loop
SleepsBefore(k, attempt) ==
    IF attempt > MaxAttempts THEN 0
    ELSE IF k = "poller" /\ attempt = 1 THEN 0
    ELSE 1

\* the worker takes a poll job (batchSize 1: one handler at a time)
handlePollVideoStatus_begin ==
    /\ rc["poller"].pc = "idle"
    /\ \E j \in DOMAIN jobs :
        /\ Fetchable(j, "poll")
        /\ jobs' = [jobs EXCEPT ![j].state = "active"]
        /\ rc' = [rc EXCEPT !["poller"] =
                    [RcIdle EXCEPT !.pc = "select", !.job = j, !.ids = jobs[j].clips,
                                   !.idx = 1, !.clip = jobs[j].clips[1]]]
    /\ UNCHANGED <<task, creating, wf, rt, clips, remote, fetches, hist, store, img, boss>>

\* pollVideoGenerationStatus(videoClipIds) called on a clip of the task
pollVideoGenerationStatus_begin ==
    /\ rc["waiter"].pc = "idle"
    /\ rc["waiter"].job < MaxWaitLoops
    /\ \E c \in DOMAIN clips :
        rc' = [rc EXCEPT !["waiter"] =
                  [RcIdle EXCEPT !.pc = "select", !.job = rc["waiter"].job + 1,
                                 !.ids = <<c>>, !.idx = 1, !.clip = c]]
    /\ UNCHANGED <<task, creating, jobs, wf, rt, clips, remote, fetches, hist, store, img, boss>>

\* The first clip of a batch: the caller's loop has counted the attempt and
\* slept.  Then updateVideoClipStatus, step 1: read the row; a terminal row is
\* returned as it is, without a query
updateVideoClipStatus_select(k) ==
    /\ rc[k].pc = "select"
    /\ LET c == rc[k].clip
           first == rc[k].idx = 1
           r == [rc[k] EXCEPT
                    !.attempt = IF first THEN @ + 1 ELSE @,
                    !.sleeps = IF first THEN @ + SleepsBefore(k, rc[k].attempt + 1) ELSE @,
                    !.snap = clips[c].status,
                    !.late = hist[c].everTerminal, !.fresh = FALSE]
       IN  rc' = [rc EXCEPT ![k] =
                    IF clips[c].status \in terminalStatuses
                    THEN AfterClip(k, r, clips[c].status)
                    ELSE [r EXCEPT !.pc = "query"]]
    /\ UNCHANGED <<task, creating, jobs, wf, rt, clips, remote, fetches, hist, store, img, boss>>

\* the comparison left out: every reported status is written
StatusUnchanged_never(local, reported) == FALSE

\* `if (clip.status === taskStatus.status)`: nothing to write
StatusUnchanged(local, reported) == local = reported

\* updateVideoClipStatus, step 2: getVideoGenerationStatus(clip.operationId);
\* an unchanged status is returned without a write; a failed request throws
\* and batchUpdateVideoStatus reports the clip as 'failed' without a write
updateVideoClipStatus_query(k) ==
    /\ rc[k].pc = "query"
    /\ LET c == rc[k].clip IN
       \/ \E s \in RemoteMay(remote[c]) :
            LET r == [rc[k] EXCEPT !.seen = s,
                         !.fresh = ~hist[c].observed \/ s # remote[c]]
            IN  /\ remote' = [remote EXCEPT ![c] = s]
                /\ hist' = [hist EXCEPT ![c].observed = TRUE,
                                        ![c].lateQuery = @ \/ rc[k].late]
                /\ rc' = [rc EXCEPT ![k] =
                            IF StatusUnchanged(rc[k].snap, s)
                            THEN AfterClip(k, r, s)
                            ELSE [r EXCEPT !.pc = "write"]]
       \/ /\ rc' = [rc EXCEPT ![k] = AfterClip(k, rc[k], "failed")]
          /\ hist' = [hist EXCEPT ![c].lateQuery = @ \/ rc[k].late]
          /\ UNCHANGED remote
    /\ UNCHANGED <<task, creating, jobs, wf, rt, clips, fetches, store, img, boss>>

\* the row after the update of step 3
ClipAfterWrite(clip, seen) ==
    IF seen = "succeeded"
    THEN [clip EXCEPT !.sourceVideoUrl = "url", !.status = seen,
                      !.downloadStatus = "downloading"]
    ELSE [clip EXCEPT !.status = seen]

\* updateVideoClipStatus, step 3: write the new status; on 'succeeded' also
\* the url and downloadStatus, and start downloadVideoToLocal without awaiting it
updateVideoClipStatus_write(k) ==
    /\ rc[k].pc = "write"
    /\ LET c == rc[k].clip
           seen == rc[k].seen
       IN  /\ clips' = [clips EXCEPT ![c] = ClipAfterWrite(@, seen)]
           /\ fetches' = [fetches EXCEPT ![c] = IF seen = "succeeded" THEN @ + 1 ELSE @]
           /\ hist' = [hist EXCEPT
                         ![c].starts = IF seen = "succeeded" THEN @ + 1 ELSE @,
                         ![c].everTerminal = @ \/ seen \in terminalStatuses,
                         ![c].badWrite = @ \/ seen = clips[c].status \/ ~rc[k].fresh]
           /\ rc' = [rc EXCEPT ![k] = AfterClip(k, rc[k], seen)]
    /\ UNCHANGED <<task, creating, jobs, wf, rt, remote, store, img, boss>>

\* a catch block that re-throws without the status update
PollerCaught_rethrowOnly(t, msg, now) == t

\* catch: updateTaskStatus(taskId, 'failed', error.message)
PollerCaught(t, msg, now) == updateTaskStatus(t, "failed", msg, now)

\* the task write that ends handlePollVideoStatus: 'completed' and return,
\* or the catch block's 'failed' followed by the re-throw
handlePollVideoStatus_final ==
    /\ rc["poller"].pc = "final"
    /\ LET r == rc["poller"]
           now == Now
       IN  CASE r.outcome = "completed" ->
                  /\ task' = updateTaskStatus(task, "completed", NULL, now)
                  /\ jobs' = JobDone(r.job)
             [] r.outcome = "partial" ->
                  /\ task' = updateTaskStatus(task, "completed",
                                              FailedMessage(r.nFailed), now)
                  /\ jobs' = JobDone(r.job)
             [] r.outcome = "someTimedOut" ->
                  /\ task' = updateTaskStatus(task, "completed", "Some videos timed out", now)
                  /\ jobs' = JobDone(r.job)
             [] r.outcome = "allFailed" ->
                  /\ task' = PollerCaught(task, "All videos failed to generate", now)
                  /\ jobs' = JobThrew(r.job)
             [] OTHER ->
                  /\ task' = PollerCaught(task, "Video generation timed out", now)
                  /\ jobs' = JobThrew(r.job)
    /\ rc' = [rc EXCEPT !["poller"] = RcIdle]
    /\ UNCHANGED <<creating, wf, rt, clips, remote, fetches, hist, store, img, boss>>

\* --------------------------------------------------- executeCompleteWorkflow
\* the result executeCompleteWorkflow returns for the counts
\* pollVideoGenerationStatus gave it: 'completed', 'completed' with an error
\* text ("partial"), or 'failed'
WaitLoopResult(r) ==
    LET completed == r.nOk
        failed == r.nFailed
        pending == Len(r.ids) - completed - failed
    IN  IF pending = 0 /\ failed = 0 THEN "completed"
        ELSE IF completed > 0 /\ failed > 0 THEN "partial"
        ELSE "failed"

\* executeCompleteWorkflow after pollVideoGenerationStatus has returned; it
\* returns its result to the caller and writes no row
executeCompleteWorkflow_return ==
    /\ rc["waiter"].pc = "idle"
    /\ rc["waiter"].outcome = "returned"
    /\ rc' = [rc EXCEPT !["waiter"].outcome = WaitLoopResult(rc["waiter"])]
    /\ UNCHANGED <<task, creating, jobs, wf, rt, clips, remote, fetches, hist, store, img, boss>>

\* One batchUpdateVideoStatus result handed to the poll job and to the wait
\* loop alike: the generator reports a status for every clip, changed
\* statuses are written to the rows (a newly succeeded clip starts its
\* download), and each loop takes the counts of the same result.
batchUpdateVideoStatus_same ==
    /\ \A k \in Callers : rc[k].pc = "select"
    /\ \E st \in [DOMAIN clips -> VideoTaskStatus] :
        /\ \A c \in DOMAIN clips : st[c] \in RemoteMay(remote[c])
        /\ remote' = st
        /\ clips' = [c \in DOMAIN clips |->
                        IF StatusUnchanged(clips[c].status, st[c])
                        THEN clips[c] ELSE ClipAfterWrite(clips[c], st[c])]
        /\ fetches' = [c \in DOMAIN clips |->
                        IF st[c] = "succeeded" /\ clips[c].status # "succeeded"
                        THEN fetches[c] + 1 ELSE fetches[c]]
        /\ hist' = [c \in DOMAIN clips |->
                        [hist[c] EXCEPT
                            !.observed = TRUE,
                            !.starts = IF st[c] = "succeeded" /\ clips[c].status # "succeeded"
                                       THEN @ + 1 ELSE @,
                            !.everTerminal = @ \/ st[c] \in terminalStatuses]]
        /\ rc' = [k \in Callers |->
                    AfterBatch(k, [rc[k] EXCEPT
                        !.attempt = @ + 1,
                        !.sleeps = @ + SleepsBefore(k, rc[k].attempt + 1),
                        !.nOk = Cardinality({c \in DOMAIN clips : st[c] = "succeeded"}),
                        !.nFailed = Cardinality({c \in DOMAIN clips : st[c] = "failed"})])]
    /\ UNCHANGED <<task, creating, jobs, wf, rt, store, img, boss>>

\* ------------------------------------------------- downloadVideoToLocal
\* the row after the .then callback's update
Downloaded(clip) ==
    [clip EXCEPT !.path = "videos/clip.mp4", !.downloadStatus = "completed",
                 !.downloadedAt = 1]

\* a download promise without the .catch handler
DownloadFailed_unhandled(clip) == clip

\* the row after the .catch callback's update
DownloadFailed(clip) == [clip EXCEPT !.downloadStatus = "failed"]

\* .then: the fetch and the upload succeeded
download_then(c) ==
    /\ fetches[c] > 0
    /\ fetches' = [fetches EXCEPT ![c] = @ - 1]
    /\ clips' = [clips EXCEPT ![c] = Downloaded(@)]
    /\ UNCHANGED <<task, creating, jobs, wf, rt, remote, rc, hist, store, img, boss>>

\* .catch: the fetch or the upload failed
download_catch(c) ==
    /\ fetches[c] > 0
    /\ fetches' = [fetches EXCEPT ![c] = @ - 1]
    /\ clips' = [clips EXCEPT ![c] = DownloadFailed(@)]
    /\ UNCHANGED <<task, creating, jobs, wf, rt, remote, rc, hist, store, img, boss>>

\* ------------------------------------------------------------------ pgBoss
\* the queues ensurePgBossStarted creates after the start
QueueNames == 3

\* what a call does before its first await: `if (isStarted) return` in both
\* functions; `if (startPromise) return startPromise` in ensurePgBossStarted
\* only; otherwise getPgBoss() and boss.start()
StartGate(b, fn) ==
    IF b.isStarted THEN "return"
    ELSE IF fn = "ensurePgBossStarted" /\ b.startPromise # 0 THEN "await"
    ELSE "start"

\* a call of ensurePgBossStarted or startPgBoss up to its first await; only
\* ensurePgBossStarted stores a startPromise
pgBoss_call(c) ==
    /\ boss.site[c].pc = "idle"
    /\ \E fn \in {"ensurePgBossStarted", "startPgBoss"} :
        LET gate == StartGate(boss, fn) IN
            boss' =
                CASE gate = "return" ->
                        [boss EXCEPT !.site[c] = [SiteIdle EXCEPT !.fn = fn, !.pc = "done"]]
                  [] gate = "await" ->
                        [boss EXCEPT !.site[c] = [SiteIdle EXCEPT !.fn = fn, !.pc = "await",
                                                                  !.on = boss.startPromise]]
                  [] OTHER ->
                        [boss EXCEPT !.client = "created",
                                     !.starts = @ + 1,
                                     !.startPromise = IF fn = "ensurePgBossStarted" THEN c ELSE @,
                                     !.site[c] = [SiteIdle EXCEPT !.fn = fn, !.pc = "start"]]
    /\ UNCHANGED <<task, creating, jobs, wf, rt, clips, remote, rc, fetches, hist, store, img>>

\* `await boss.start()` returns: startPgBoss sets isStarted and returns,
\* ensurePgBossStarted goes on to create the queues
pgBoss_started(c) ==
    /\ boss.site[c].pc = "start"
    /\ boss' = IF boss.site[c].fn = "startPgBoss"
               THEN [boss EXCEPT !.ready = TRUE, !.isStarted = TRUE, !.site[c].pc = "done"]
               ELSE [boss EXCEPT !.ready = TRUE, !.site[c].pc = "createQueue"]
    /\ UNCHANGED <<task, creating, jobs, wf, rt, clips, remote, rc, fetches, hist, store, img>>

\* `await boss.createQueue(...)`, three times; after the last one
\* isStarted = true, startPromise = null, and the promise resolves
ensurePgBossStarted_createQueue(c) ==
    /\ boss.site[c].pc = "createQueue"
    /\ boss' = IF boss.site[c].queues + 1 < QueueNames
               THEN [boss EXCEPT !.site[c].queues = @ + 1]
               ELSE [boss EXCEPT !.site[c].queues = @ + 1, !.site[c].pc = "done",
                                 !.isStarted = TRUE, !.startPromise = 0]
    /\ UNCHANGED <<task, creating, jobs, wf, rt, clips, remote, rc, fetches, hist, store, img>>

\* the startPromise a call returned has resolved
ensurePgBossStarted_resolved(c) ==
    /\ boss.site[c].pc = "await"
    /\ boss.site[boss.site[c].on].pc = "done"
    /\ boss' = [boss EXCEPT !.site[c].pc = "done"]
    /\ UNCHANGED <<task, creating, jobs, wf, rt, clips, remote, rc, fetches, hist, store, img>>

\* stopPgBoss: `if (boss) await boss.stop(...)`
stopPgBoss_call ==
    /\ ~boss.stopping
    /\ boss.stops < MaxStops
    /\ boss.client = "created"
    /\ boss' = [boss EXCEPT !.stopping = TRUE, !.stops = @ + 1, !.starts = 0]
    /\ UNCHANGED <<task, creating, jobs, wf, rt, clips, remote, rc, fetches, hist, store, img>>

\* boss = null; isStarted = false; startPromise = null; mode = null
stopPgBoss_reset ==
    /\ boss.stopping
    /\ boss' = [boss EXCEPT !.stopping = FALSE, !.client = "none", !.ready = FALSE,
                            !.isStarted = FALSE, !.startPromise = 0]
    /\ UNCHANGED <<task, creating, jobs, wf, rt, clips, remote, rc, fetches, hist, store, img>>

\* ---------------------------------------------------------- specifications
\* The pipeline as the worker and the web process run it: task creation, the
\* workflow job, retryTask and the poll job.
Next ==
    \/ createVideoTask_insert
    \/ createVideoTask_send
    \/ createVideoTask_setJobId
    \/ handleUgcVideoWorkflow_begin
    \/ handleUgcVideoWorkflow_setAnalyzing
    \/ executeUgcVideoWorkflow_stage
    \/ batchCreateVideoTasks
    \/ handleUgcVideoWorkflow_sendPoll
    \/ handleUgcVideoWorkflow_catch
    \/ retryTask_find
    \/ retryTask_reset
    \/ retryTask_send
    \/ handlePollVideoStatus_begin
    \/ updateVideoClipStatus_select("poller")
    \/ updateVideoClipStatus_query("poller")
    \/ updateVideoClipStatus_write("poller")
    \/ handlePollVideoStatus_final

Spec == Init /\ [][Next]_vars

\* The queue on its own: creation, the workflow handler, the poll handler
\* and the queue's re-invocations, with no retryTask call.
QueueNext ==
    \/ createVideoTask_insert
    \/ createVideoTask_send
    \/ createVideoTask_setJobId
    \/ handleUgcVideoWorkflow_begin
    \/ handleUgcVideoWorkflow_setAnalyzing
    \/ executeUgcVideoWorkflow_stage
    \/ batchCreateVideoTasks
    \/ handleUgcVideoWorkflow_sendPoll
    \/ handleUgcVideoWorkflow_catch
    \/ handlePollVideoStatus_begin
    \/ updateVideoClipStatus_select("poller")
    \/ updateVideoClipStatus_query("poller")
    \/ updateVideoClipStatus_write("poller")
    \/ handlePollVideoStatus_final

QueueSpec == Init /\ [][QueueNext]_vars

\* Video tasks over the parameters a request may carry: createVideoTask
\* stores targetDuration and videoCount as given, the create route only
\* replaces missing ones by the defaults.
Durations == {NoDuration, 4, DefaultDuration, 61}
Counts == {DefaultCount, 11}

ParamInit ==
    /\ task \in {NewTask("video", d, c) : d \in Durations, c \in Counts}
    /\ InitRest

ParamNext ==
    \/ createVideoTask_insert
    \/ createVideoTask_send
    \/ createVideoTask_setJobId
    \/ handleUgcVideoWorkflow_begin
    \/ handleUgcVideoWorkflow_setAnalyzing
    \/ executeUgcVideoWorkflow_stage
    \/ batchCreateVideoTasks
    \/ handleUgcVideoWorkflow_sendPoll
    \/ handleUgcVideoWorkflow_catch

ParamSpec == ParamInit /\ [][ParamNext]_vars

\* retryTask next to the two workflow handlers: a video task or an image
\* task, its creation, its workflow job with the queue's re-invocations, and
\* the owner's (or another user's) retryTask calls.
RetryInit ==
    /\ task \in {NewTask("video", DefaultDuration, DefaultCount),
                  NewTask("image", NoDuration, DefaultCount)}
    /\ InitRest

RetryNext ==
    \/ createVideoTask_insert
    \/ createVideoTask_send
    \/ createVideoTask_setJobId
    \/ createImageTask_insert
    \/ createImageTask_send
    \/ createImageTask_setJobId
    \/ handleUgcVideoWorkflow_begin
    \/ handleUgcVideoWorkflow_setAnalyzing
    \/ executeUgcVideoWorkflow_stage
    \/ batchCreateVideoTasks
    \/ handleUgcVideoWorkflow_sendPoll
    \/ handleUgcVideoWorkflow_catch
    \/ handleImageGenerationWorkflow_begin
    \/ executeImageGenerationWorkflow_setAnalyzing
    \/ executeImageGenerationWorkflow_analyze
    \/ executeImageGenerationWorkflow_setGenerating
    \/ generateSingleImage
    \/ executeImageGenerationWorkflow_setCompleted
    \/ executeImageGenerationWorkflow_catch
    \/ retryTask_find
    \/ retryTask_reset
    \/ retryTask_send

RetrySpec == RetryInit /\ [][RetryNext]_vars

\* The queue client of one process: MaxCallSites call sites that each call
\* ensurePgBossStarted or startPgBoss, and stopPgBoss.
BossNext ==
    \/ \E c \in CallSites : pgBoss_call(c)
    \/ \E c \in CallSites : pgBoss_started(c)
    \/ \E c \in CallSites : ensurePgBossStarted_createQueue(c)
    \/ \E c \in CallSites : ensurePgBossStarted_resolved(c)
    \/ stopPgBoss_call
    \/ stopPgBoss_reset

BossSpec == Init /\ [][BossNext]_vars

\* The two workflow handlers with the queue's re-invocations of their jobs:
\* a video task or an image task, its creation and its workflow job.
WorkflowsNext ==
    \/ createVideoTask_insert
    \/ createVideoTask_send
    \/ createVideoTask_setJobId
    \/ createImageTask_insert
    \/ createImageTask_send
    \/ createImageTask_setJobId
    \/ handleUgcVideoWorkflow_begin
    \/ handleUgcVideoWorkflow_setAnalyzing
    \/ executeUgcVideoWorkflow_stage
    \/ batchCreateVideoTasks
    \/ handleUgcVideoWorkflow_sendPoll
    \/ handleUgcVideoWorkflow_catch
    \/ handleImageGenerationWorkflow_begin
    \/ executeImageGenerationWorkflow_setAnalyzing
    \/ executeImageGenerationWorkflow_analyze
    \/ executeImageGenerationWorkflow_setGenerating
    \/ generateSingleImage
    \/ executeImageGenerationWorkflow_setCompleted
    \/ executeImageGenerationWorkflow_catch

WorkflowsSpec == RetryInit /\ [][WorkflowsNext]_vars

\* The poll handler on a job over 1..MaxClips clips (videoClipIds is an array
\* in the job's schema): the state after a workflow run that has returned,
\* then the poll job and its re-invocations.
PollInit ==
    \E n \in 1..MaxClips :
        /\ task = [NewTask("video", DefaultDuration, DefaultCount) EXCEPT
                      !.exists = TRUE, !.status = "analyzing", !.startedAt = 1, !.jobId = 1]
        /\ creating = "done"
        /\ jobs = <<[Job("workflow", <<>>) EXCEPT !.state = "completed"],
                    [Job("poll", [i \in 1..n |-> i]) EXCEPT !.by = 1]>>
        /\ wf = WfIdle
        /\ rt = [pc |-> "idle", calls |-> 0, job |-> 0]
        /\ clips = [i \in 1..n |-> NewClip]
        /\ remote = [i \in 1..n |-> "queued"]
        /\ rc = [k \in Callers |-> RcIdle]
        /\ fetches = [i \in 1..n |-> 0]
        /\ hist = [i \in 1..n |-> NewHist(1, 0)]
        /\ store = [EmptyStore EXCEPT !.product = 1, !.script = DefaultCount, !.shot = 1]
        /\ img = ImgIdle
        /\ boss = BossInit

PollNext ==
    \/ handlePollVideoStatus_begin
    \/ updateVideoClipStatus_select("poller")
    \/ updateVideoClipStatus_query("poller")
    \/ updateVideoClipStatus_write("poller")
    \/ handlePollVideoStatus_final

PollSpec == PollInit /\ [][PollNext]_vars

\* Both pipelines from the request to the end: a video task or an image
\* task, its creation, its workflow job, the poll job of a video task and the
\* queue's re-invocations.  The queue delivers every job it holds, every call
\* returns and the worker stays up: a process that can take a step takes one.
PipelineCreate ==
    \/ createVideoTask_insert
    \/ createVideoTask_send
    \/ createVideoTask_setJobId
    \/ createImageTask_insert
    \/ createImageTask_send
    \/ createImageTask_setJobId

PipelineWorkflow ==
    \/ handleUgcVideoWorkflow_begin
    \/ handleUgcVideoWorkflow_setAnalyzing
    \/ executeUgcVideoWorkflow_stage
    \/ batchCreateVideoTasks
    \/ handleUgcVideoWorkflow_sendPoll
    \/ handleUgcVideoWorkflow_catch

PipelinePoll ==
    \/ handlePollVideoStatus_begin
    \/ updateVideoClipStatus_select("poller")
    \/ updateVideoClipStatus_query("poller")
    \/ updateVideoClipStatus_write("poller")
    \/ handlePollVideoStatus_final

PipelineImage ==
    \/ handleImageGenerationWorkflow_begin
    \/ executeImageGenerationWorkflow_setAnalyzing
    \/ executeImageGenerationWorkflow_analyze
    \/ executeImageGenerationWorkflow_setGenerating
    \/ generateSingleImage
    \/ executeImageGenerationWorkflow_setCompleted
    \/ executeImageGenerationWorkflow_catch

PipelineNext ==
    \/ PipelineCreate
    \/ PipelineWorkflow
    \/ PipelinePoll
    \/ PipelineImage

PipelineLive ==
    /\ RetryInit /\ [][PipelineNext]_vars
    /\ WF_vars(PipelineCreate)
    /\ WF_vars(PipelineWorkflow)
    /\ WF_vars(PipelinePoll)
    /\ WF_vars(PipelineImage)

\* The poll job and the wait loop on the same 1..MaxClips clips and the same
\* reconcile results: the poll job has been taken by the worker, the wait
\* loop has been entered, and every batch result goes to both.
SameInit ==
    \E n \in 1..MaxClips :
        /\ task = [NewTask("video", DefaultDuration, DefaultCount) EXCEPT
                      !.exists = TRUE, !.status = "analyzing", !.startedAt = 1, !.jobId = 1]
        /\ creating = "done"
        /\ jobs = <<[Job("workflow", <<>>) EXCEPT !.state = "completed"],
                    [Job("poll", [i \in 1..n |-> i]) EXCEPT !.by = 1, !.state = "active"]>>
        /\ wf = WfIdle
        /\ rt = [pc |-> "idle", calls |-> 0, job |-> 0]
        /\ clips = [i \in 1..n |-> NewClip]
        /\ remote = [i \in 1..n |-> "queued"]
        /\ rc = [k \in Callers |->
                    [RcIdle EXCEPT !.pc = "select", !.ids = [i \in 1..n |-> i],
                                   !.idx = 1, !.clip = 1,
                                   !.job = IF k = "poller" THEN 2 ELSE 1]]
        /\ fetches = [i \in 1..n |-> 0]
        /\ hist = [i \in 1..n |-> NewHist(1, 0)]
        /\ store = [EmptyStore EXCEPT !.product = 1, !.script = DefaultCount, !.shot = 1]
        /\ img = ImgIdle
        /\ boss = BossInit

SameNext ==
    \/ batchUpdateVideoStatus_same
    \/ handlePollVideoStatus_final
    \/ executeCompleteWorkflow_return

SameSpec == SameInit /\ [][SameNext]_vars

\* Image tasks asking for 1..MaxImages images: createImageTask, the image
\* handler and the queue's re-invocations of its job.
ImageInit ==
    /\ task \in {NewTask("image", NoDuration, n) : n \in 1..MaxImages}
    /\ InitRest

ImageNext ==
    \/ createImageTask_insert
    \/ createImageTask_send
    \/ createImageTask_setJobId
    \/ handleImageGenerationWorkflow_begin
    \/ executeImageGenerationWorkflow_setAnalyzing
    \/ executeImageGenerationWorkflow_analyze
    \/ executeImageGenerationWorkflow_setGenerating
    \/ generateSingleImage
    \/ executeImageGenerationWorkflow_setCompleted
    \/ executeImageGenerationWorkflow_catch

ImageSpec == ImageInit /\ [][ImageNext]_vars

\* One clip from its creation on: the state in which the first workflow run
\* has returned (task analyzing, clip queued, poll job sent), then the poll
\* job with its re-invocations, the wait loop on the same clip, and the
\* download callbacks.
ClipInit ==
    /\ task = [NewTask("video", DefaultDuration, DefaultCount) EXCEPT
                  !.exists = TRUE, !.status = "analyzing", !.startedAt = 1, !.jobId = 1]
    /\ creating = "done"
    /\ jobs = <<[Job("workflow", <<>>) EXCEPT !.state = "completed"],
                [Job("poll", <<1>>) EXCEPT !.by = 1]>>
    /\ wf = WfIdle
    /\ rt = [pc |-> "idle", calls |-> 0, job |-> 0]
    /\ clips = <<NewClip>>
    /\ remote = <<"queued">>
    /\ rc = [k \in Callers |-> RcIdle]
    /\ fetches = <<0>>
    /\ hist = <<NewHist(1, 0)>>
    /\ store = [EmptyStore EXCEPT !.product = 1, !.script = DefaultCount, !.shot = 1]
    /\ img = ImgIdle
    /\ boss = BossInit

ClipNext ==
    \/ handlePollVideoStatus_begin
    \/ pollVideoGenerationStatus_begin
    \/ \E k \in Callers : updateVideoClipStatus_select(k)
    \/ \E k \in Callers : updateVideoClipStatus_query(k)
    \/ \E k \in Callers : updateVideoClipStatus_write(k)
    \/ handlePollVideoStatus_final
    \/ \E c \in DOMAIN clips : download_then(c)
    \/ \E c \in DOMAIN clips : download_catch(c)

ClipSpec == ClipInit /\ [][ClipNext]_vars

\* a started fetch settles: the promise resolves or rejects
ClipLive ==
    /\ ClipSpec
    /\ \A c \in {1} : WF_vars(download_then(c) \/ download_catch(c))

\* ------------------------------------------------------------------ claims
WorkflowJobs == {j \in DOMAIN jobs : jobs[j].kind = "workflow"}
PollJobs == {j \in DOMAIN jobs : jobs[j].kind = "poll"}
LiveJobs == {j \in DOMAIN jobs : jobs[j].state \in {"created", "active", "retry"}}

\* position of a status in the pipeline order of taskStatusEnum; the
\* terminal statuses come last
Rank(s) ==
    CASE s = "pending" -> 0
      [] s = "analyzing" -> 1
      [] s = "scripting" -> 2
      [] s = "storyboarding" -> 3
      [] s = "generating_frames" -> 4
      [] s = "generating_videos" -> 5
      [] s = "generating_images" -> 6
      [] s = "compositing" -> 7
      [] OTHER -> 8

\* C1: in every reachable state the task's completedAt is non-null if and
\* only if its status is completed, failed or cancelled.
C1_CompletedAtIffTerminal ==
    task.exists => ((task.completedAt # NoTime) <=> (task.status \in TaskTerminal))

\* C2: the task's status never moves backward in the pipeline order and never
\* leaves a terminal status, except that retryTask resets a failed task to
\* pending.
C2_StatusMonotonic ==
    [][ \/ task'.status = task.status
        \/ /\ task.status \notin TaskTerminal
           /\ Rank(task'.status) > Rank(task.status)
        \/ /\ rt.pc = "reset" /\ rt'.pc = "send"
           /\ task.status = "failed" /\ task'.status = "pending" ]_vars

\* C3: during a run of the video workflow the persisted status is the one of
\* the stage that is running (analyzing, scripting, storyboarding,
\* generating_videos), and it is generating_videos when the poll job is sent.
C3_StatusFollowsStages ==
    /\ wf.pc = "analyze" => task.status = "analyzing"
    /\ wf.pc = "script" => task.status = "scripting"
    /\ wf.pc = "shots" => task.status = "storyboarding"
    /\ wf.pc \in {"video", "sendPoll"} => task.status = "generating_videos"

\* the clips created by the run of workflow job j that returned
ClipsOfReturnedRun(j) ==
    {c \in DOMAIN clips : hist[c].job = j /\ hist[c].run = jobs[j].retryCount}

\* C4: a workflow job whose handler returned without throwing has sent
\* exactly one poll job, and that job carries exactly the one clip the run
\* created; a run that threw (a failed send included) marked the task failed,
\* so a task in a non-terminal status always has a job of the queue (or a
\* send in progress) behind it.
C4_PollJobSent ==
    /\ \A j \in WorkflowJobs :
        jobs[j].state = "completed" =>
            /\ Cardinality({p \in PollJobs : jobs[p].by = j}) = 1
            /\ Cardinality(ClipsOfReturnedRun(j)) = 1
            /\ \A p \in PollJobs :
                  jobs[p].by = j =>
                      /\ Len(jobs[p].clips) = 1
                      /\ jobs[p].clips[1] \in ClipsOfReturnedRun(j)
    /\ \A j \in WorkflowJobs :
        jobs[j].state \in {"retry", "failed"} => \A p \in PollJobs : jobs[p].by # j
    /\ (task.exists /\ task.status \notin TaskTerminal) =>
            (LiveJobs # {} \/ creating = "send" \/ rt.pc = "send")

\* a workflow job that returned after an earlier run of it had thrown
C4_Witness ==
    \E j \in WorkflowJobs :
        /\ jobs[j].state = "completed" /\ jobs[j].retryCount > 0
        /\ \E p \in PollJobs : jobs[p].by = j /\ jobs[p].clips = <<Len(clips)>>

\* C5: a workflow handler and a poll handler never execute at the same time
\* for the task.
C5_NeverBothHandlers == ~(wf.pc # "idle" /\ rc["poller"].pc # "idle")

\* C6: for each clip the download is started exactly once after the remote
\* operation succeeded: at least once when the row says succeeded, never twice.
C6_DownloadStartedOnce ==
    \A c \in DOMAIN clips :
        /\ hist[c].starts <= 1
        /\ clips[c].status = "succeeded" => hist[c].starts = 1

\* C7: once a clip's persisted status has been terminal, no call of
\* updateVideoClipStatus that begins later issues a remote status query.
C7_NoQueryAfterTerminal == \A c \in DOMAIN clips : ~hist[c].lateQuery

\* C8: once a clip's persisted status is succeeded, failed, cancelled or
\* expired it never changes again.
C8_TerminalSticky ==
    [][\A c \in DOMAIN clips :
          clips[c].status \in terminalStatuses => clips'[c].status = clips[c].status]_vars

\* C9: reconcile writes a clip row only when the reported status differs from
\* the stored one, and a call that follows another with the remote state
\* unchanged in between writes nothing.
C9_NoRedundantWrite == \A c \in DOMAIN clips : ~hist[c].badWrite

\* the second call of a poll run returned without a write: the generator
\* still reported the status (running) that the first call had stored
C9_Witness ==
    LET r == rc["poller"] IN
        /\ r.pc = "select" /\ r.attempt = 2 /\ ~r.fresh
        /\ clips[r.clip].status = "running" /\ hist[r.clip].observed

\* C10: the write that finds the clip newly succeeded stores status, url and
\* downloadStatus = downloading and the call returns with the fetch still in
\* flight; a settled fetch leaves completed with downloadedAt or failed; and
\* downloading always leads to completed or failed.
C10_DownloadSettles ==
    /\ [][\A c \in DOMAIN clips :
            /\ hist'[c].starts > hist[c].starts =>
                /\ clips'[c].status = "succeeded"
                /\ clips'[c].sourceVideoUrl # NULL
                /\ clips'[c].downloadStatus = "downloading"
                /\ fetches'[c] = fetches[c] + 1
                /\ \E k \in Callers :
                      rc[k].pc = "write" /\ rc[k].clip = c /\ rc'[k].pc # "write"
            /\ fetches'[c] < fetches[c] =>
                \/ /\ clips'[c].downloadStatus = "completed"
                   /\ clips'[c].downloadedAt # NoTime
                \/ clips'[c].downloadStatus = "failed"]_vars
    /\ (clips[1].downloadStatus = "downloading") ~>
            (clips[1].downloadStatus \in {"completed", "failed"})

\* the clip was found succeeded, and its download has completed
C10_Witness ==
    /\ clips[1].status = "succeeded"
    /\ clips[1].downloadStatus = "completed"
    /\ clips[1].downloadedAt # NoTime
    /\ fetches[1] = 0

\* a workflow job whose latest run threw, seen after the handler has returned
WorkflowThrew == wf.pc = "idle" /\ \E j \in WorkflowJobs : jobs[j].state \in {"retry", "failed"}

\* C13: a video task without a targetDuration has no stage executed: the
\* handler never gets past the check, the status is never one of scripting or
\* later, no product, script, shot or clip row exists, no poll job is sent,
\* and a run that ended left the task failed with the precondition's text.
C13_NoDurationFailsFast ==
    (task.exists /\ task.targetDuration = NoDuration) =>
        /\ wf.pc \in {"idle", "setAnalyzing", "analyze", "catch"}
        /\ task.status \in {"pending", "analyzing", "failed"}
        /\ store = EmptyStore /\ clips = <<>> /\ PollJobs = {}
        /\ WorkflowThrew =>
            /\ task.status = "failed"
            /\ task.errorMessage = "Target duration is required for video generation workflow"

\* the job of a task without targetDuration has used up its retries
C13_Witness ==
    /\ task.targetDuration = NoDuration
    /\ \E j \in WorkflowJobs : jobs[j].state = "failed" /\ jobs[j].retryCount = RetryLimit
    /\ task.status = "failed" /\ wf.pc = "idle"

OutOfRange(t) ==
    /\ t.targetDuration # NoDuration
    /\ t.targetDuration < 5 \/ t.targetDuration > 60 \/ t.count < 1 \/ t.count > 10

\* C14: a video task with targetDuration outside 5..60 or count outside
\* 1..10 fails with no product, script, shot or clip row created, and the
\* errorMessage a run leaves is the text of the violated precondition (or of
\* an earlier stage failure of the generator).
C14_OutOfRangeNoArtifact ==
    (task.exists /\ OutOfRange(task)) =>
        /\ store = EmptyStore /\ clips = <<>>
        /\ WorkflowThrew =>
            /\ task.status = "failed"
            /\ task.errorMessage \in {"Video count must be between 1 and 10",
                                      "Target duration must be between 5 and 60 seconds",
                                      "stage failed"}

\* the last execution of the image workflow has gone through all its
\* generation calls and has returned
ImageRunEnded == img.pc = "idle" /\ img.job # 0 /\ img.i = ImageCount(task)

\* C11: an execution of the image workflow in which k of the N generation
\* calls failed ends, if k < N, with the task completed and exactly N - k
\* promotional-image rows added by it, and if k = N with the task failed.
C11_PartialImages ==
    ImageRunEnded =>
        /\ img.results + img.failed = ImageCount(task)
        /\ IF img.failed < ImageCount(task)
           THEN /\ task.status = "completed"
                /\ store.image - img.base = ImageCount(task) - img.failed
                /\ jobs[img.job].state = "completed"
           ELSE /\ task.status = "failed"
                /\ store.image = img.base

\* an execution with a failed call followed by a call that succeeded
C11_Witness ==
    /\ ImageRunEnded /\ task.status = "completed"
    /\ img.failed > 0 /\ img.results > 1
    /\ store.image - img.base = img.results

\* C12: when an image task ends completed after k of its generations
\* failed, its errorMessage is non-null if and only if k > 0.
C12_AdvisoryIffFailures ==
    (ImageRunEnded /\ task.status = "completed") =>
        ((task.errorMessage # NULL) <=> (img.failed > 0))

\* the step in which the poll handler writes the task and returns or throws
PollerFinalStep == rc["poller"].pc = "final" /\ rc'["poller"].pc = "idle"

\* the poll job's run threw: pg-boss holds the job for a retry or fails it
PollerThrew(j) ==
    \/ jobs'[j].state = "retry" /\ jobs'[j].retryCount = jobs[j].retryCount + 1
    \/ jobs'[j].state = "failed" /\ jobs[j].retryCount = RetryLimit

\* C15: when a poll attempt counts zero pending clips: with no failed clip
\* the task becomes completed and no message is written; with succeeded and
\* failed clips it becomes completed with the message giving the number of
\* failures; with every clip failed the job throws and the task is failed.
C15_FinalizeByCounts ==
    [][LET r == rc["poller"] IN
        (PollerFinalStep /\ r.attempt <= MaxAttempts) =>
            /\ r.nOk + r.nFailed = Len(r.ids)
            /\ r.nFailed = 0 =>
                /\ task'.status = "completed"
                /\ task'.errorMessage = task.errorMessage
                /\ jobs'[r.job].state = "completed"
            /\ (r.nFailed > 0 /\ r.nOk > 0) =>
                /\ task'.status = "completed"
                /\ task'.errorMessage = FailedMessage(r.nFailed)
                /\ jobs'[r.job].state = "completed"
            /\ r.nOk = 0 =>
                /\ task'.status = "failed"
                /\ PollerThrew(r.job)]_vars

\* a job over two clips ended with one succeeded and one failed
C15_Witness ==
    /\ task.status = "completed"
    /\ task.errorMessage = "1 videos failed to generate"
    /\ \E c, d \in DOMAIN clips : clips[c].status = "succeeded" /\ clips[d].status = "failed"

Min(a, b) == IF a < b THEN a ELSE b

TimeoutOutcomes == {"someTimedOut", "timedOut"}

\* C16: the poll job polls at most maxAttempts times, sleeping before every
\* poll but the first, and on a timeout the task is completed with the
\* advisory message if a clip had succeeded by the last attempt, else failed.
C16_AtMostMaxAttemptsPolls ==
    LET r == rc["poller"] IN
        /\ r.attempt <= MaxAttempts
        /\ r.sleeps = (IF r.attempt = 0 THEN 0 ELSE r.attempt - 1)
        /\ (r.pc = "final" /\ r.outcome \in TimeoutOutcomes) =>
                (r.outcome = "someTimedOut" <=> r.loopOk > 0)

\* C16 (amended): the poll job makes at most maxAttempts attempts in its
\* loop, sleeping before every one but the first; with clips still pending
\* after the last of them it reconciles once more without sleeping and decides
\* on that result: completed with 'Some videos timed out' if a clip is
\* succeeded in it, otherwise the timeout error is thrown and the task failed.
C16_TimeoutAfterExtraPoll ==
    /\ [](LET r == rc["poller"] IN
            /\ r.attempt <= MaxAttempts + 1
            /\ r.sleeps = (IF r.attempt = 0 THEN 0 ELSE Min(r.attempt, MaxAttempts) - 1)
            /\ r.pc = "final" =>
                /\ r.outcome \in TimeoutOutcomes <=> r.attempt = MaxAttempts + 1
                /\ r.outcome = "someTimedOut" => r.nOk > 0
                /\ r.outcome = "timedOut" => r.nOk = 0)
    /\ [][LET r == rc["poller"] IN
            /\ (PollerFinalStep /\ r.outcome = "someTimedOut") =>
                /\ task'.status = "completed"
                /\ task'.errorMessage = "Some videos timed out"
                /\ jobs'[r.job].state = "completed"
            /\ (PollerFinalStep /\ r.outcome = "timedOut") =>
                /\ task'.status = "failed"
                /\ task'.errorMessage = "Video generation timed out"
                /\ PollerThrew(r.job)]_vars

\* the run went through all its attempts, slept between them, and the poll
\* after the loop found a clip succeeded
C16_Witness ==
    LET r == rc["poller"] IN
        /\ r.pc = "final" /\ r.outcome = "someTimedOut"
        /\ r.attempt = MaxAttempts + 1 /\ r.sleeps = MaxAttempts - 1
        /\ r.loopOk = 0

C18_FinalizedClipsTerminal ==
    LET r == rc["poller"] IN
        (r.pc = "final" /\ r.attempt <= MaxAttempts) =>
            \A i \in DOMAIN r.ids : clips[r.ids[i]].status \in terminalStatuses

\* C19: a retryTask call on a task that is not failed, or not the caller's,
\* changes nothing and sends no job; on a failed task it sets the status to
\* pending, clears errorMessage, startedAt and completedAt, and sends exactly
\* one workflow job, to the queue of the task's type.
C19_RetryOnlyFailed ==
    [][/\ (rt.pc = "idle" /\ rt'.calls = rt.calls + 1) =>
            /\ task' = task /\ jobs' = jobs
            /\ rt'.pc = "reset" => task.status = "failed"
            /\ task.status # "failed" => rt'.pc = "idle"
       /\ (rt.pc = "reset" /\ rt'.pc = "send") =>
            /\ task'.status = "pending" /\ task'.errorMessage = NULL
            /\ task'.startedAt = NoTime /\ task'.completedAt = NoTime
            /\ task'.taskType = task.taskType /\ task'.jobId = task.jobId
            /\ jobs' = jobs
       /\ (rt.pc = "send" /\ rt'.pc = "idle") =>
            /\ Len(jobs') = Len(jobs) + 1
            /\ \A j \in DOMAIN jobs : jobs'[j] = jobs[j]
            /\ jobs'[Len(jobs')].kind = (IF task.taskType = "video" THEN "workflow" ELSE "image")
            /\ jobs'[Len(jobs')].state = "created"
            /\ task' = task]_vars

\* retryTask has reset a failed image task and sent its new job
C19_Witness ==
    /\ rt.pc = "idle" /\ rt.job # 0
    /\ jobs[rt.job].kind = "image" /\ jobs[rt.job].state = "created"
    /\ task.taskType = "image" /\ task.status = "pending"
    /\ task.errorMessage = NULL /\ task.completedAt = NoTime

\* C20: once its creation has returned, a task in a non-terminal status has
\* a jobId that names the queue job responsible for it now: a job that is
\* created, active or waiting for its retry.
C20_JobIdNamesLiveJob ==
    (creating = "done" /\ task.status \notin TaskTerminal) =>
        /\ task.jobId \in DOMAIN jobs
        /\ task.jobId \in LiveJobs

\* C21: under every interleaving of ensurePgBossStarted and startPgBoss
\* calls the client's start() is invoked at most once until stopPgBoss is
\* called, and a call returns only after a start has completed.
C21_StartOnce ==
    /\ boss.starts <= 1
    /\ \A c \in CallSites :
        (boss.site[c].pc = "done" /\ boss.stops = 0) => boss.ready

\* C22: updateTaskStatus stamps startedAt only when it is unset: a later
\* transition into a processing status (analyzing to generating_images, or
\* a re-invocation setting analyzing again) leaves a set startedAt as it is.
C22_StartedAtStampedOnce ==
    [][(task.startedAt # NoTime /\ task'.status \in processingStatuses) =>
            task'.startedAt = task.startedAt]_vars

\* the stages of executeImageGenerationWorkflow
ImageStageOrder == <<"analyze", "generate">>

IsPrefix(a, b) == Len(a) <= Len(b) /\ \A i \in DOMAIN a : a[i] = b[i]

\* C23: in both pipelines an execution invokes its stages in order and each
\* at most once; once a stage has thrown, the execution's only further step
\* is the catch, which sets the task failed with the thrown error's message
\* and throws to the queue, whose retry policy takes the job.
C23_StageThrowAborts ==
    /\ [](IsPrefix(wf.ran, StageOrder) /\ IsPrefix(img.ran, ImageStageOrder))
    /\ [][/\ (wf.pc = "catch" /\ wf' # wf) =>
                /\ wf'.pc = "idle"
                /\ task'.status = "failed" /\ task'.errorMessage = wf.err
                /\ PollerThrew(wf.job)
          /\ (img.pc = "catch" /\ img' # img) =>
                /\ img'.pc = "idle" /\ img'.ran = img.ran
                /\ task'.status = "failed" /\ task'.errorMessage = img.err
                /\ PollerThrew(img.job)
          /\ (wf'.ran # wf.ran /\ wf'.pc # "idle") =>
                /\ wf.pc \in {"analyze", "script", "shots", "video"}
                /\ wf'.ran = Append(wf.ran, wf.pc)]_vars

\* the third stage of a video run has thrown after two stages returned
C23_Witness ==
    /\ wf.pc = "catch" /\ wf.ran = <<"analyze", "script", "shots">>
    /\ wf.err = "stage failed" /\ store.script > 0 /\ store.shot = 0

\* C24: however often the queue invokes a workflow handler for the task,
\* the task has at most one product row, and an image task has at most
\* `count` promotional-image rows (their paths are image_1 .. image_count,
\* so more rows than that means a path stored twice).
C24_StagesIdempotent ==
    /\ store.product <= 1
    /\ task.taskType = "image" => store.image <= ImageCount(task)

\* C25: a cancelled or expired clip is not pending for the poll job: when a
\* batch is over and the job goes round for another attempt, some clip of
\* the job is still in a non-terminal status.
C25_TerminalNotPending ==
    LET r == rc["poller"] IN
        (r.pc = "select" /\ r.idx = 1 /\ r.attempt >= 1) =>
            \E i \in DOMAIN r.ids : clips[r.ids[i]].status \notin terminalStatuses

\* the workflow jobs whose execution is not over: the job is created, active
\* or waiting for its retry, or the poll job its run sent is
InFlight ==
    {j \in WorkflowJobs :
        \/ j \in LiveJobs
        \/ \E p \in PollJobs : jobs[p].by = j /\ p \in LiveJobs}

\* C26: at most one workflow execution is in flight for the task at any
\* time, whatever retryTask calls and queue retries interleave.
C26_OneWorkflowInFlight == Cardinality(InFlight) <= 1

\* C27: for the same sequence of reconcile results the wait loop returns
\* completed, completed with an error text, or failed exactly when the poll
\* job sets the task completed without a message, completed with a message,
\* or failed.
C27_LoopsClassifyAlike ==
    LET w == rc["waiter"].outcome IN
        (rc["poller"].pc = "idle" /\ w \in {"completed", "partial", "failed"}) =>
            /\ w = "completed" <=> (task.status = "completed" /\ task.errorMessage = NULL)
            /\ w = "partial" <=> (task.status = "completed" /\ task.errorMessage # NULL)
            /\ w = "failed" <=> task.status = "failed"

\* C28: an image task that ends completed with every requested image
\* generated has a null errorMessage, also when an earlier run of the job had
\* failed and recorded a message.
C28_CleanSuccessNoMessage ==
    (ImageRunEnded /\ task.status = "completed" /\ img.failed = 0) =>
        task.errorMessage = NULL

\* C29: for every clip, a downloadStatus of downloading, completed or
\* failed implies status succeeded and a sourceVideoUrl, and a downloadStatus
\* of completed implies a path and a downloadedAt.
C29_DownloadImpliesSucceeded ==
    \A c \in DOMAIN clips :
        /\ clips[c].downloadStatus \in {"downloading", "completed", "failed"} =>
            /\ clips[c].status = "succeeded"
            /\ clips[c].sourceVideoUrl # NULL
        /\ clips[c].downloadStatus = "completed" =>
            /\ clips[c].path # NULL
            /\ clips[c].downloadedAt # NoTime

\* C30: a task whose workflow job is sent ends completed or failed and does
\* not stay pending or in a processing status forever, and a run of the poll
\* job always comes to its end.
C30_EventuallyTerminal ==
    /\ <>[](task.exists /\ task.status \in {"completed", "failed"})
    /\ (rc["poller"].pc # "idle") ~> (rc["poller"].pc = "idle")

\* a video task completed by its poll job after its workflow job had been
\* re-invoked and the poll job had gone through more than one attempt
C30_Witness ==
    /\ task.taskType = "video" /\ task.status = "completed"
    /\ \E j \in WorkflowJobs : jobs[j].state = "completed" /\ jobs[j].retryCount > 0
    /\ \E p \in PollJobs : jobs[p].state = "completed"
    /\ rc["poller"].pc = "idle"
====
